---------------------------- MODULE Spec2Model ----------------------------
(***************************************************************************)
(* mzmlripper: the streaming mzML parser (mzml_parser.py), the Spectrum    *)
(* decode/serialize pipeline (spectrum.py) and the level aggregator        *)
(* (bulk_process / build_output).                                          *)
(* The extracted-ion chromatogram generator (chromatograms.py) runs on the  *)
(* dicts that serialize builds.                                             *)
(*                                                                         *)
(* Conventions of the model                                                *)
(*   - a Python str that the code compares, parses or formats is a         *)
(*     sequence of one-character strings, <<"1","0",".","0">> for "10.0";  *)
(*     Ord gives the code point that Python's str comparison uses;         *)
(*   - a Python float holding an m/z, a mass or a retention time is an     *)
(*     integer count of 1e-5 units (Scale); an intensity is an integer     *)
(*     count of half units (IScale), so int() truncation is visible;       *)
(*   - a Spectrum object lives in the sequence spectra; every other list   *)
(*     (ms_levels, ms1..ms4, the output) holds indices into it, which are  *)
(*     the object references of the code.                                  *)
(***************************************************************************)
EXTENDS Integers, Sequences, FiniteSets, TLC

VARIABLES
    cfg,                 \* constructor arguments: int_threshold, relative, rt_units
    in_spectrum,         \* MzmlParser.in_spectrum
    spec,                \* MzmlParser.spec, the record being filled
    curr_spec_bin_type,  \* MzmlParser.curr_spec_bin_type
    spectra,             \* MzmlParser.spectra, the completed records (the heap)
    nlines,              \* number of input lines consumed so far
    block,               \* the lines handed to extract_information in the open block
    ms_levels,           \* the four buckets built in parse_file
    ms,                  \* self.ms1 .. self.ms4
    th,                  \* the four worker threads of bulk_process
    output,              \* the dict built by build_output
    pc,                  \* position of the main thread in parse_file
    exc,                 \* exception that left parse_file ("" = none)
    written,             \* write_json has written the output file
    ncalls,              \* per record: how often Spectrum.process was called
    eic_call,            \* the arguments of the call of generate_EIC
    eic_gen,             \* the generator object the call returned (its frame)
    eic_got,             \* what the caller's for loops over the generator received
    chrom,               \* the call of generate_chromatogram and what it returned
    input                \* history: the lines read so far, where the specification records them

vars == <<cfg, in_spectrum, spec, curr_spec_bin_type, spectra, nlines, block,
          ms_levels, ms, th, output, pc, exc, written, ncalls,
          eic_call, eic_gen, eic_got, chrom, input>>

chromVars == <<eic_call, eic_gen, eic_got, chrom>>

parserVars == <<in_spectrum, spec, curr_spec_bin_type, nlines, block, input>>
pipeVars == <<ms_levels, ms, th, output, written, ncalls>>

-----------------------------------------------------------------------------
(* Bounds of the model                                                     *)

MaxSpectra == 2      \* records in a drawn completed list
MaxPeaks == 2        \* elements of a drawn binary array
MaxLines == 4        \* input lines of a drawn file

-----------------------------------------------------------------------------
(* Python str, int() and float()                                           *)

Ord(c) ==
    CASE c = " " -> 32 [] c = "." -> 46
      [] c = "0" -> 48 [] c = "1" -> 49 [] c = "2" -> 50 [] c = "3" -> 51
      [] c = "4" -> 52 [] c = "5" -> 53 [] c = "6" -> 54 [] c = "7" -> 55
      [] c = "8" -> 56 [] c = "9" -> 57 [] c = "@" -> 64
      [] OTHER -> 99

DigitChars == {"0", "1", "2", "3", "4", "5", "6", "7", "8", "9"}
DigitChar(d) ==
    CASE d = 0 -> "0" [] d = 1 -> "1" [] d = 2 -> "2" [] d = 3 -> "3"
      [] d = 4 -> "4" [] d = 5 -> "5" [] d = 6 -> "6" [] d = 7 -> "7"
      [] d = 8 -> "8" [] OTHER -> "9"
DigitVal(c) == Ord(c) - 48

RECURSIVE StrLess(_, _)
StrLess(a, b) ==
    IF a = <<>> THEN b # <<>>
    ELSE IF b = <<>> THEN FALSE
    ELSE IF Ord(Head(a)) < Ord(Head(b)) THEN TRUE
    ELSE IF Ord(Head(a)) > Ord(Head(b)) THEN FALSE
    ELSE StrLess(Tail(a), Tail(b))

StrLessEq(a, b) == a = b \/ StrLess(a, b)

IsIntStr(s) == s # <<>> /\ \A i \in 1..Len(s) : s[i] \in DigitChars

RECURSIVE IntOfStr(_)
IntOfStr(s) ==
    IF s = <<>> THEN 0
    ELSE 10 * IntOfStr(SubSeq(s, 1, Len(s) - 1)) + DigitVal(s[Len(s)])

RECURSIVE StrOfNat(_)
StrOfNat(n) ==
    IF n < 10 THEN <<DigitChar(n)>>
    ELSE Append(StrOfNat(n \div 10), DigitChar(n % 10))

\* floats are kept one digit finer than the four decimals the code formats to
Decimals == 4
FracDigits == Decimals + 1

RECURSIVE Pow10(_)
Pow10(n) == IF n = 0 THEN 1 ELSE 10 * Pow10(n - 1)

Scale == Pow10(FracDigits)

DotPos(s) == IF \E i \in 1..Len(s) : s[i] = "."
             THEN CHOOSE i \in 1..Len(s) : s[i] = "." /\ \A j \in 1..(i-1) : s[j] # "."
             ELSE 0

IntPart(s) == IF DotPos(s) = 0 THEN s ELSE SubSeq(s, 1, DotPos(s) - 1)
FracPart(s) == IF DotPos(s) = 0 THEN <<>> ELSE SubSeq(s, DotPos(s) + 1, Len(s))

\* float(s) accepts a plain decimal; anything else the model draws raises ValueError
IsFloatStr(s) ==
    /\ IsIntStr(IntPart(s))
    /\ \A i \in 1..Len(FracPart(s)) : FracPart(s)[i] \in DigitChars
    /\ Len(FracPart(s)) <= FracDigits

FloatOfStr(s) ==
    IntOfStr(IntPart(s)) * Scale
      + IntOfStr(FracPart(s)) * Pow10(FracDigits - Len(FracPart(s)))

\* leading zeros of a fraction printed with n digits
RECURSIVE PadLeft(_, _)
PadLeft(s, n) == IF Len(s) >= n THEN s ELSE PadLeft(<<"0">> \o s, n)

RECURSIVE StripZeros(_)
StripZeros(s) ==
    IF Len(s) > 1 /\ s[Len(s)] = "0" THEN StripZeros(SubSeq(s, 1, Len(s) - 1))
    ELSE s

\* str(x) of a float: shortest decimal, at least one fractional digit
StrOfFloat(x) ==
    StrOfNat(x \div Scale) \o <<".">>
      \o StripZeros(PadLeft(StrOfNat(x % Scale), FracDigits))

\* f"{x:.4f}": rounded to four decimals (ties to even), not truncated
Round4(x) ==
    LET q == x \div 10
        r == x % 10
    IN  IF r > 5 \/ (r = 5 /\ q % 2 = 1) THEN q + 1 ELSE q

Fmt4(x) ==
    StrOfNat(Round4(x) \div Pow10(Decimals)) \o <<".">>
      \o PadLeft(StrOfNat(Round4(x) % Pow10(Decimals)), Decimals)

-----------------------------------------------------------------------------
(* Python list.sort / sorted: stable                                       *)

\* mutant: the sort is descending
RECURSIVE InsertIonDescending(_, _)
InsertIonDescending(x, s) ==
    IF s = <<>> THEN <<x>>
    ELSE IF x[2] > Head(s)[2] THEN <<x>> \o s
    ELSE <<Head(s)>> \o InsertIonDescending(x, Tail(s))

\* sorted(ions, key=lambda x: x[1]) of convert_to_relative
RECURSIVE InsertIon(_, _)
InsertIon(x, s) ==
    IF s = <<>> THEN <<x>>
    ELSE IF x[2] < Head(s)[2] THEN <<x>> \o s
    ELSE <<Head(s)>> \o InsertIon(x, Tail(s))

RECURSIVE SortedIons(_)
SortedIons(s) ==
    IF s = <<>> THEN <<>>
    ELSE InsertIon(s[Len(s)], SortedIons(SubSeq(s, 1, Len(s) - 1)))

-----------------------------------------------------------------------------
(* Python dict of a serialized spectrum                                    *)
(* ions: the entries under mass keys, in insertion order; meta: the other  *)
(* keys present, their values in the fields of the same name.              *)

NON_MASS_KEYS == {"mass_list", "retention_time", "parent", "scan", "parent_scan"}

StrKey(s) == [t |-> "str", s |-> s, f |-> 0]
FloatKey(x) == [t |-> "float", s |-> <<>>, f |-> x]

EmptyDict ==
    [meta |-> {}, ions |-> <<>>, retention_time |-> <<>>, scan |-> <<>>,
     parent |-> <<>>, parent_scan |-> <<>>, mass_list |-> <<>>,
     base_peak |-> <<>>]

IsEmptyDict(d) == d.meta = {} /\ d.ions = <<>>

DictHas(ions, k) == \E i \in 1..Len(ions) : ions[i].k = k
DictGet(ions, k) == ions[CHOOSE i \in 1..Len(ions) : ions[i].k = k].v
DictSet(ions, k, v) ==
    IF DictHas(ions, k)
    THEN [i \in 1..Len(ions) |-> IF ions[i].k = k THEN [k |-> k, v |-> v] ELSE ions[i]]
    ELSE Append(ions, [k |-> k, v |-> v])

-----------------------------------------------------------------------------
(* Spectrum (spectrum.py)                                                  *)

\* a binary payload: the array it encodes and how far decode has taken it
\* ("b64" text, "raw" bytes after base64, "bytes" after zlib, "list" of floats).
\* A drawn payload is the base64 of the zlib stream of the packed array.
Payload(vals) == [enc |-> "b64", vals |-> vals]

NewSpectrum(thr, rel) ==
    [id |-> <<>>, scan |-> <<>>, array_length |-> <<>>, ms_level |-> <<>>,
     parent_mass |-> <<>>, parent_scan |-> <<>>, retention_time |-> <<>>,
     d_type |-> "", compression |-> "", mz |-> Payload(<<>>),
     intensity |-> Payload(<<>>), serialized |-> EmptyDict,
     intensity_threshold |-> thr, relative |-> rel]

SetDataType(d) ==
    IF d \in {"32-bit float"} THEN "f"
    ELSE IF d \in {"64-bit float"} THEN "d"
    ELSE d

HasZlib(c) == c \in {"zlib compression"}

\* struct.unpack(f"<{array_length}{d_type}", bytes) accepts the buffer
Unpacks(r, p) ==
    /\ r.d_type \in {"f", "d"}
    /\ IsIntStr(r.array_length)
    /\ IntOfStr(r.array_length) = Len(p.vals)

\* base64.b64decode of a field that is no base64 text (any more)
B64Error(p) == IF p.enc = "b64" THEN ""
               ELSE IF p.enc \in {"list", "None"} THEN "TypeError"
               ELSE "binascii.Error"

DecodeAndDecompress(r) ==
    IF B64Error(r.mz) # "" THEN [rec |-> r, exc |-> B64Error(r.mz)]
    ELSE IF B64Error(r.intensity) # ""
    THEN [rec |-> [r EXCEPT !.mz.enc = "raw"], exc |-> B64Error(r.intensity)]
    ELSE IF r.compression = "None"
    THEN [rec |-> [r EXCEPT !.mz.enc = "raw", !.intensity.enc = "raw"],
          exc |-> "TypeError"]
    ELSE IF ~HasZlib(r.compression)
    THEN [rec |-> [r EXCEPT !.mz.enc = "raw", !.intensity.enc = "raw"],
          exc |-> "UnsupportedCompressionMethod"]
    ELSE IF ~Unpacks(r, r.mz)
    THEN [rec |-> [r EXCEPT !.mz.enc = "bytes", !.intensity.enc = "bytes"],
          exc |-> "struct.error"]
    ELSE IF ~Unpacks(r, r.intensity)
    THEN [rec |-> [r EXCEPT !.mz.enc = "list", !.intensity.enc = "bytes"],
          exc |-> "struct.error"]
    ELSE [rec |-> [r EXCEPT !.mz.enc = "list", !.intensity.enc = "list"],
          exc |-> ""]

\* mutant: the comparison is not strict
PassesThresholdNotStrict(level, inten, thr) ==
    IF level = <<"1">> THEN inten >= 2 * thr
    ELSE IF StrLess(<<"1">>, level) THEN inten * 100 >= (2 * thr) * 5
    ELSE FALSE

\* intensity > threshold (MS1), intensity > (threshold / 100) * 5 (above MS1);
\* intensities are in half units
PassesThreshold(level, inten, thr) ==
    IF level = <<"1">> THEN inten > 2 * thr
    ELSE IF StrLess(<<"1">>, level) THEN inten * 100 > (2 * thr) * 5
    ELSE FALSE

\* int(intensity)
IntOf(inten) == inten \div 2

Min(a, b) == IF a < b THEN a ELSE b

\* the loop of serialize over zip(mz, intensity), elements 1..n
RECURSIVE FilterPeaks(_, _)
FilterPeaks(r, n) ==
    IF n = 0 THEN [ions |-> <<>>, mass_list |-> <<>>]
    ELSE LET acc == FilterPeaks(r, n - 1)
             m == r.mz.vals[n]
             i == r.intensity.vals[n]
         IN  IF PassesThreshold(r.ms_level, i, r.intensity_threshold)
             THEN [ions |-> DictSet(acc.ions, StrKey(Fmt4(m)), IntOf(i)),
                   mass_list |-> Append(acc.mass_list, m)]
             ELSE acc

\* round((i / base) * 100, 4), in 1e-4 units
RelRound(i, base) == (2 * i * 100 * Pow10(Decimals) + base) \div (2 * base)

RECURSIVE RelIons(_, _, _)
RelIons(all_ions, n, base) ==
    IF n = 0 THEN <<>>
    ELSE DictSet(RelIons(all_ions, n - 1, base),
                 FloatKey(all_ions[n][1]), RelRound(all_ions[n][2], base))

KeyFloat(k) == IF k.t = "str" THEN FloatOfStr(k.s) ELSE k.f

ConvertToRelative(d) ==
    LET all_ions == SortedIons([i \in 1..Len(d.ions) |->
                                  <<KeyFloat(d.ions[i].k), d.ions[i].v>>])
        base_peak == all_ions[Len(all_ions)]
    IN  IF all_ions = <<>> THEN [out |-> d, exc |-> "IndexError"]
        ELSE IF base_peak[2] = 0 THEN [out |-> d, exc |-> "ZeroDivisionError"]
        ELSE [out |-> [d EXCEPT !.meta = (d.meta \cap NON_MASS_KEYS) \cup {"base_peak"},
                                !.ions = RelIons(all_ions, Len(all_ions), base_peak[2]),
                                !.base_peak = base_peak],
              exc |-> ""]

Serialize(r) ==
    LET f == FilterPeaks(r, Min(Len(r.mz.vals), Len(r.intensity.vals)))
        hasParent == r.parent_mass # <<>>
        out == [meta |-> {"retention_time", "scan", "mass_list"}
                           \cup (IF hasParent THEN {"parent"} ELSE {})
                           \cup (IF r.parent_scan # <<>> THEN {"parent_scan"} ELSE {}),
                ions |-> f.ions,
                retention_time |-> r.retention_time,
                scan |-> r.scan,
                parent |-> IF hasParent /\ IsFloatStr(r.parent_mass)
                           THEN Fmt4(FloatOfStr(r.parent_mass)) ELSE <<>>,
                parent_scan |-> r.parent_scan,
                mass_list |-> [i \in 1..Len(f.mass_list) |->
                                 FloatOfStr(Fmt4(f.mass_list[i]))],
                base_peak |-> <<>>]
    IN  IF hasParent /\ ~IsFloatStr(r.parent_mass)
        THEN [out |-> EmptyDict, exc |-> "ValueError"]
        ELSE IF r.relative THEN ConvertToRelative(out)
        ELSE [out |-> out, exc |-> ""]

\* Spectrum.process: the record after the call and the exception it raised
Process(r) ==
    LET t == [r EXCEPT !.d_type = SetDataType(r.d_type)]
        d == DecodeAndDecompress(t)
        s == Serialize(d.rec)
    IN  IF r.d_type = "None" THEN [rec |-> r, exc |-> "TypeError"]
        ELSE IF d.exc # "" THEN d
        ELSE IF s.exc # "" THEN [rec |-> d.rec, exc |-> s.exc]
        ELSE [rec |-> [d.rec EXCEPT !.serialized = s.out], exc |-> ""]

-----------------------------------------------------------------------------
(* Level aggregator (MzmlParser.parse_file, bulk_process, build_output)    *)

Levels == 1..4

\* [spec for spec in self.spectra if spec.ms_level == str(level)]
Bucket(h, level) ==
    SelectSeq([i \in 1..Len(h) |-> i],
              LAMBDA i : h[i].ms_level = StrOfNat(level))

\* mutant: every level is appended to the first list
AppendTargetFirst(level) ==
    IF level \in {<<"1">>, <<"2">>, <<"3">>, <<"4">>} THEN 1 ELSE 0

\* the list process_spectra appends a processed record to (0: none)
AppendTarget(level) ==
    IF level = <<"1">> THEN 1
    ELSE IF level = <<"2">> THEN 2
    ELSE IF level = <<"3">> THEN 3
    ELSE IF level = <<"4">> THEN 4
    ELSE 0

\* sorted(self.msN, key=lambda x: x.retention_time): the key is the str
RtBefore(h, i, j) == StrLess(h[i].retention_time, h[j].retention_time)

RECURSIVE InsertByRt(_, _, _)
InsertByRt(h, x, s) ==
    IF s = <<>> THEN <<x>>
    ELSE IF RtBefore(h, x, Head(s)) THEN <<x>> \o s
    ELSE <<Head(s)>> \o InsertByRt(h, x, Tail(s))

RECURSIVE SortedByRt(_, _)
SortedByRt(h, s) ==
    IF s = <<>> THEN <<>>
    ELSE InsertByRt(h, s[Len(s)], SortedByRt(h, SubSeq(s, 1, Len(s) - 1)))

\* "if not spec.serialized: spec.process()" over the four sorted lists in turn
RECURSIVE ProcessPending(_, _, _)
ProcessPending(h, calls, todo) ==
    IF todo = <<>> THEN [h |-> h, calls |-> calls, exc |-> ""]
    ELSE LET i == Head(todo)
             res == Process(h[i])
             h2 == [h EXCEPT ![i] = res.rec]
             c2 == [calls EXCEPT ![i] = @ + 1]
         IN  IF res.exc # "" THEN [h |-> h2, calls |-> c2, exc |-> res.exc]
             ELSE ProcessPending(h2, c2, Tail(todo))

\* mutant: the guard looks at the mass list, not at the dict
NeedsProcessByMassList(h, i) == h[i].serialized.mass_list = <<>>

NeedsProcess(h, i) == IsEmptyDict(h[i].serialized)

\* mutant: no check of mass_list
LevelKeysAll(h, lst) == 1..Len(lst)

\* the keys n of spectrum_<n> that the loop over one sorted list sets
LevelKeys(h, lst) ==
    {n \in 1..Len(lst) : h[lst[n]].serialized.mass_list # <<>>}

LevelOutput(h, lst) == [n \in LevelKeys(h, lst) |-> lst[n]]

NoOutput == [L \in Levels |-> <<>>]

NewThread == [st |-> "new", pos |-> 1, exc |-> ""]

\* parse_file after the last line: the four buckets, then Thread.start for each
BulkStart ==
    /\ pc = "parsed"
    /\ ms_levels' = [L \in Levels |-> Bucket(spectra, L)]
    /\ th' = [L \in Levels |-> [st |-> "run", pos |-> 1, exc |-> ""]]
    /\ pc' = "join"
    /\ UNCHANGED <<cfg, spectra, ms, output, exc, written, ncalls>>
    /\ UNCHANGED parserVars
    /\ UNCHANGED chromVars

\* one iteration of the loop of process_spectra in the thread of bucket L;
\* an exception of spec.process ends the thread (threading prints it and
\* the thread terminates; the main thread is not told)
WorkerStep(L) ==
    /\ pc = "join"
    /\ th[L].st = "run"
    /\ th[L].pos <= Len(ms_levels[L])
    /\ LET i == ms_levels[L][th[L].pos]
           res == Process(spectra[i])
           tgt == AppendTarget(res.rec.ms_level)
       IN  /\ spectra' = [spectra EXCEPT ![i] = res.rec]
           /\ ncalls' = [ncalls EXCEPT ![i] = @ + 1]
           /\ IF res.exc = ""
              THEN /\ ms' = IF tgt = 0 THEN ms
                            ELSE [ms EXCEPT ![tgt] = Append(@, i)]
                   /\ th' = [th EXCEPT ![L].pos = @ + 1]
              ELSE /\ ms' = ms
                   /\ th' = [th EXCEPT ![L].st = "dead", ![L].exc = res.exc]
    /\ UNCHANGED <<cfg, ms_levels, output, pc, exc, written>>
    /\ UNCHANGED parserVars
    /\ UNCHANGED chromVars

\* mutant: join returns for a thread as soon as it was started
EndedOnceStarted(L) == th[L].st # "new"

\* a thread has ended: its loop ran to the end of its list, or raised
Ended(L) == th[L].st = "dead" \/ th[L].pos > Len(ms_levels[L])

\* [thread.join() for thread in pool] returns once every thread has ended
JoinAll ==
    /\ pc = "join"
    /\ \A L \in Levels : Ended(L)
    /\ pc' = "build"
    /\ UNCHANGED <<cfg, spectra, ms_levels, ms, th, output, exc, written, ncalls>>
    /\ UNCHANGED parserVars
    /\ UNCHANGED chromVars

Concat4(q) == q[1] \o q[2] \o q[3] \o q[4]

BuildOutput ==
    /\ pc = "build"
    /\ LET sorted == [L \in Levels |-> SortedByRt(spectra, ms[L])]
           todo == SelectSeq(Concat4(sorted), LAMBDA i : NeedsProcess(spectra, i))
           res == ProcessPending(spectra, ncalls, todo)
       IN  /\ ms' = sorted
           /\ spectra' = res.h
           /\ ncalls' = res.calls
           /\ IF res.exc = ""
              THEN /\ output' = [L \in Levels |-> LevelOutput(res.h, sorted[L])]
                   /\ pc' = "write"
                   /\ exc' = exc
              ELSE /\ output' = output
                   /\ pc' = "failed"
                   /\ exc' = res.exc
    /\ UNCHANGED <<cfg, ms_levels, th, written>>
    /\ UNCHANGED parserVars
    /\ UNCHANGED chromVars

\* write_out_to_file writes the JSON file and parse_file returns the output
WriteOut ==
    /\ pc = "write"
    /\ written' = TRUE
    /\ pc' = "done"
    /\ UNCHANGED <<cfg, spectra, ms_levels, ms, th, output, exc, ncalls>>
    /\ UNCHANGED parserVars
    /\ UNCHANGED chromVars

PipeNext ==
    \/ BulkStart
    \/ \E L \in Levels : WorkerStep(L)
    \/ JoinAll
    \/ BuildOutput
    \/ WriteOut

-----------------------------------------------------------------------------
(* Extracted-ion chromatogram (chromatograms.generate_EIC)                 *)
(* generate_EIC is a generator function: the call returns a generator      *)
(* object and runs none of the body; the body runs, up to the next yield,  *)
(* each time the caller asks the generator for its next item.              *)

Million == 1000000

NoCall ==
    [made |-> FALSE, ms_data |-> <<>>, target_mass |-> 0, error_tolerance |-> 0,
     error_units |-> "", min_rt |-> 0, max_rt |-> <<>>]

\* the frame of the generator: st is "none" (no call yet), "created" (not
\* started), "suspended" (at the yield) or "finished" (returned or raised)
NoGen == [st |-> "none", ms_data |-> <<>>, mass_range |-> <<0, 0>>, pos |-> 1, exc |-> ""]

\* the caller: for loops begun, whether one is running, the points each of
\* them received, the exception that ended each ("": none)
NoneGot == [iter |-> 0, open |-> FALSE, seqs |-> <<>>, excs |-> <<>>]

\* generate_chromatogram not yet called
NoChrom ==
    [made |-> FALSE, ms_data |-> <<>>, chromatogram |-> "", ms_level |-> 0,
     ret |-> <<>>, exc |-> ""]

ChromIdle == eic_call = NoCall /\ eic_gen = NoGen /\ eic_got = NoneGot /\ chrom = NoChrom

\* "if max_rt:" of an argument that is None (<<>>) or a number (<<x>>)
Truthy(max_rt) == max_rt # <<>> /\ max_rt[1] # 0

\* mutant: parts per hundred thousand
ErrorToleranceCoarse(c) ==
    IF c.error_units = "ppm" THEN (c.target_mass * c.error_tolerance) \div (Million \div 10)
    ELSE c.error_tolerance

\* error_tolerance in mass units once the units are checked; the drawn
\* values make the division exact
ErrorTolerance(c) ==
    IF c.error_units = "ppm" THEN (c.target_mass * c.error_tolerance) \div Million
    ELSE c.error_tolerance

\* the body of generate_EIC up to the loop: the local ms_data, the mass
\* range and the exception raised on the way
Prologue(c) ==
    LET by_min == SelectSeq(c.ms_data,
                            LAMBDA d : FloatOfStr(d.retention_time) >= c.min_rt)
        tol == ErrorTolerance(c)
        none == [ms_data |-> by_min, mass_range |-> <<0, 0>>, exc |-> ""]
    IN  IF Truthy(c.max_rt) THEN [none EXCEPT !.exc = "AttributeError"]
        ELSE IF c.error_units \notin {"ppm", "u"} THEN [none EXCEPT !.exc = "Exception"]
        ELSE [none EXCEPT !.mass_range = <<c.target_mass - tol, c.target_mass + tol>>]

match_mass(candidates, range) ==
    SelectSeq(candidates, LAMBDA mass : mass >= range[1] /\ mass <= range[2])

\* sum([float(spec[format(match, ".4f")]) for match in matches])
RECURSIVE SumMatches(_, _)
SumMatches(d, matches) ==
    IF matches = <<>> THEN 0
    ELSE DictGet(d.ions, StrKey(Fmt4(Head(matches)))) + SumMatches(d, Tail(matches))

\* mutant: the generator is as new once its loop is over
AfterLoopRewound(g) == [g EXCEPT !.st = "created", !.pos = 1]

\* the for loop ran off the end of ms_data: the generator returns
AfterLoop(g) == [g EXCEPT !.st = "finished"]

\* the loop from spectrum g.pos on, up to the next yield, the end or a raise
RECURSIVE RunLoop(_)
RunLoop(g) ==
    IF g.pos > Len(g.ms_data)
    THEN [gen |-> AfterLoop(g), kind |-> "stop", point |-> <<>>, exc |-> ""]
    ELSE LET d == g.ms_data[g.pos]
             matches == match_mass(d.mass_list, g.mass_range)
         IN  IF matches = <<>> THEN RunLoop([g EXCEPT !.pos = @ + 1])
             ELSE IF \E q \in 1..Len(matches) :
                        ~DictHas(d.ions, StrKey(Fmt4(matches[q])))
             THEN [gen |-> [g EXCEPT !.st = "finished", !.exc = "KeyError"],
                   kind |-> "raise", point |-> <<>>, exc |-> "KeyError"]
             ELSE [gen |-> [g EXCEPT !.st = "suspended", !.pos = @ + 1],
                   kind |-> "yield",
                   point |-> <<FloatOfStr(d.retention_time), SumMatches(d, matches)>>,
                   exc |-> ""]

\* next(generator): a finished generator raises StopIteration at once
GenNext(g, c) ==
    IF g.st = "finished"
    THEN [gen |-> g, kind |-> "stop", point |-> <<>>, exc |-> ""]
    ELSE IF g.st = "created"
    THEN LET p == Prologue(c)
         IN  IF p.exc # ""
             THEN [gen |-> [g EXCEPT !.st = "finished", !.exc = p.exc],
                   kind |-> "raise", point |-> <<>>, exc |-> p.exc]
             ELSE RunLoop([g EXCEPT !.ms_data = p.ms_data,
                                    !.mass_range = p.mass_range, !.pos = 1])
    ELSE RunLoop(g)

\* list(generator): the points of one full pass and the exception that ended it
RECURSIVE Drain(_, _, _)
Drain(g, c, acc) ==
    LET r == GenNext(g, c)
    IN  IF r.kind = "yield" THEN Drain(r.gen, c, Append(acc, r.point))
        ELSE [points |-> acc, exc |-> r.exc]

\* the caller calls generate_EIC: a generator object comes back
EicCall(c) ==
    /\ ~eic_call.made
    /\ eic_call' = c
    /\ eic_gen' = [NoGen EXCEPT !.st = "created"]
    /\ eic_got' = eic_got
    /\ UNCHANGED <<cfg, spectra, pc, exc, chrom>>
    /\ UNCHANGED parserVars
    /\ UNCHANGED pipeVars

MaxIterations == 2

\* the caller begins a for loop over the generator (the first, or another
\* one once the last has ended)
EicIterate ==
    /\ eic_call.made
    /\ ~eic_got.open
    /\ eic_got.iter < MaxIterations
    /\ eic_got' = [eic_got EXCEPT !.iter = @ + 1, !.open = TRUE,
                                  !.seqs = Append(@, <<>>),
                                  !.excs = Append(@, "")]
    /\ UNCHANGED <<eic_call, eic_gen>>
    /\ UNCHANGED <<cfg, spectra, pc, exc, chrom>>
    /\ UNCHANGED parserVars
    /\ UNCHANGED pipeVars

\* the running for loop asks for the next item
EicNext ==
    /\ eic_got.open
    /\ LET r == GenNext(eic_gen, eic_call)
       IN  /\ eic_gen' = r.gen
           /\ eic_got' =
                 IF r.kind = "yield"
                 THEN [eic_got EXCEPT !.seqs[eic_got.iter] = Append(@, r.point)]
                 ELSE [eic_got EXCEPT !.open = FALSE, !.excs[eic_got.iter] = r.exc]
    /\ UNCHANGED eic_call
    /\ UNCHANGED <<cfg, spectra, pc, exc, chrom>>
    /\ UNCHANGED parserVars
    /\ UNCHANGED pipeVars

-----------------------------------------------------------------------------
(* Base-peak and total-ion chromatograms (chromatograms.generate_chromatogram) *)

\* the keys of a spectrum dict that are not in NON_MASS_KEYS and are no
\* masses, in the order of the dict: base_peak (set by convert_to_relative),
\* then splash (set by the hashing step); both come after the mass keys
ExtraKeys(d) ==
    (IF "base_peak" \in d.meta THEN <<"base_peak">> ELSE <<>>)
      \o (IF "splash" \in d.meta THEN <<"splash">> ELSE <<>>)

\* this_spectra["splash"] = splash_string
WithSplash(d) == [d EXCEPT !.meta = @ \cup {"splash"}]

\* float(mass) of the key of every item not in NON_MASS_KEYS, the peaks
\* sorted by intensity, the last of them
find_max_peak(d) ==
    LET peaks == SortedIons([i \in 1..Len(d.ions) |->
                               <<KeyFloat(d.ions[i].k), d.ions[i].v>>])
    IN  IF ExtraKeys(d) # <<>> THEN [ret |-> <<>>, exc |-> "ValueError"]
        ELSE IF peaks = <<>> THEN [ret |-> <<>>, exc |-> "IndexError"]
        ELSE [ret |-> <<FloatOfStr(d.retention_time)>> \o peaks[Len(peaks)], exc |-> ""]

RECURSIVE SumValues(_)
SumValues(ions) == IF ions = <<>> THEN 0 ELSE Head(ions).v + SumValues(Tail(ions))

\* float(spectrum[mass]) of every item not in NON_MASS_KEYS: the value under
\* base_peak is a list, the value under splash a hash string
sum_intensity_peaks(d) ==
    IF ExtraKeys(d) # <<>>
    THEN [ret |-> <<>>,
          exc |-> IF Head(ExtraKeys(d)) = "base_peak" THEN "TypeError" ELSE "ValueError"]
    ELSE [ret |-> <<FloatOfStr(d.retention_time), SumValues(d.ions)>>, exc |-> ""]

\* the list comprehension over the spectra of the level, with find_max_peak
\* (kind "bpc") or sum_intensity_peaks (kind "tic"): the list, or the first
\* exception
RECURSIVE MapSpectra(_, _)
MapSpectra(kind, xs) ==
    IF xs = <<>> THEN [ret |-> <<>>, exc |-> ""]
    ELSE LET r == IF kind = "bpc" THEN find_max_peak(Head(xs))
                  ELSE sum_intensity_peaks(Head(xs))
             rest == MapSpectra(kind, Tail(xs))
         IN  IF r.exc # "" THEN [ret |-> <<>>, exc |-> r.exc]
             ELSE IF rest.exc # "" THEN rest
             ELSE [ret |-> <<r.ret>> \o rest.ret, exc |-> ""]

\* str.lower() of the chromatogram argument
Lower(t) ==
    CASE t = "TIC" -> "tic" [] t = "BPC" -> "bpc" [] t = "Bpc" -> "bpc" [] OTHER -> t

\* ms_data: the spectra of each level present, in the order of the level's
\* keys (level L stands for the key f"ms{L}")
generate_chromatogram(ms_data, chromatogram, ms_level) ==
    IF ms_level \notin DOMAIN ms_data THEN [ret |-> <<>>, exc |-> ""]
    ELSE IF Lower(chromatogram) = "bpc" THEN MapSpectra("bpc", ms_data[ms_level])
    ELSE IF Lower(chromatogram) = "tic" THEN MapSpectra("tic", ms_data[ms_level])
    ELSE [ret |-> <<>>, exc |-> "Exception"]

\* the caller calls generate_chromatogram and gets a list or an exception
ChromCall(ms_data, chromatogram, ms_level) ==
    /\ ~chrom.made
    /\ LET r == generate_chromatogram(ms_data, chromatogram, ms_level)
       IN  chrom' = [made |-> TRUE, ms_data |-> ms_data, chromatogram |-> chromatogram,
                     ms_level |-> ms_level, ret |-> r.ret, exc |-> r.exc]
    /\ UNCHANGED <<eic_call, eic_gen, eic_got>>
    /\ UNCHANGED <<cfg, spectra, pc, exc>>
    /\ UNCHANGED parserVars
    /\ UNCHANGED pipeVars

-----------------------------------------------------------------------------
(* Completed records as the parser leaves them, drawn from bounded sets    *)

Thresholds == {20, 40}
MzValues == {11, 12, 20}          \* 0.00011, 0.00012, 0.00020
IntValues == {2, 3, 4, 40, 42}    \* 1.0, 1.5, 2.0, 20.0, 21.0
RtValues == {1 * Scale, 2 * Scale, 10 * Scale}

RECURSIVE SeqsUpTo(_, _)
SeqsUpTo(S, n) ==
    IF n = 0 THEN {<<>>}
    ELSE LET shorter == SeqsUpTo(S, n - 1)
         IN  shorter \cup {Append(q, x) : q \in {t \in shorter : Len(t) = n - 1}, x \in S}

Drawn(thr, rel, level, rt, comp, alen, mzs, ints) ==
    [NewSpectrum(thr, rel) EXCEPT
        !.id = <<"0">>, !.scan = <<"1">>, !.array_length = StrOfNat(alen),
        !.ms_level = StrOfNat(level), !.retention_time = StrOfFloat(rt),
        !.d_type = "64-bit float", !.compression = comp,
        !.mz = Payload(mzs), !.intensity = Payload(ints)]

\* one record with any arrays of up to MaxPeaks elements, decodable
WideRecords(thr, rel) ==
    {Drawn(thr, rel, level, 1 * Scale, "zlib compression", Len(p),
           [i \in 1..Len(p) |-> p[i][1]], [i \in 1..Len(p) |-> p[i][2]]) :
        level \in Levels, p \in SeqsUpTo(MzValues \X IntValues, MaxPeaks)}

\* records of one peak, of MS1 or MS2, some of them not decodable
NarrowRecords(thr, rel) ==
    {Drawn(thr, rel, level, rt, f[1], 1 + f[2], <<11>>, <<f[3]>>) :
        level \in {1, 2}, rt \in RtValues,
        f \in {<<"zlib compression", 0, 4>>, <<"zlib compression", 0, 42>>,
               <<"no compression", 0, 42>>, <<"zlib compression", 1, 42>>}}

Configs == [int_threshold : Thresholds, relative : BOOLEAN, rt_units : {"min"}]

ParsedInit(recs) ==
    /\ cfg \in Configs
    /\ in_spectrum = FALSE
    /\ spec = NewSpectrum(cfg.int_threshold, cfg.relative)
    /\ curr_spec_bin_type = 1
    /\ nlines = 0
    /\ block = <<>>
    /\ input = <<>>
    /\ spectra \in recs
    /\ ms_levels = NoOutput
    /\ ms = NoOutput
    /\ th = [L \in Levels |-> NewThread]
    /\ output = NoOutput
    /\ pc = "parsed"
    /\ exc = ""
    /\ written = FALSE
    /\ ncalls = [i \in 1..Len(spectra) |-> 0]
    /\ ChromIdle

\* parse_file once the last line is read, on up to MaxSpectra completed records
Init ==
    \E t \in Thresholds, rel \in BOOLEAN :
        /\ cfg = [int_threshold |-> t, relative |-> rel, rt_units |-> "min"]
        /\ ParsedInit(SeqsUpTo(NarrowRecords(t, rel), MaxSpectra))

\* the same on a single record with any arrays
SerializeInit ==
    \E t \in Thresholds, rel \in BOOLEAN :
        /\ cfg = [int_threshold |-> t, relative |-> rel, rt_units |-> "min"]
        /\ ParsedInit({<<r>> : r \in WideRecords(t, rel)})

Spec == Init /\ [][PipeNext]_vars
SerializeSpec == SerializeInit /\ [][PipeNext]_vars

-----------------------------------------------------------------------------
(* Streaming parser (MzmlParser.process_line and what it calls)            *)

\* what value_finder returns when the regular expression does not match
NoneStr == <<"None">>
NoneName == "None"
NoPayload == [enc |-> "None", vals |-> <<>>]

\* an input line: the substrings the code tests for (toks) and what each
\* regular expression of create_regex_mapper captures from it
BlankLine ==
    [toks |-> {}, index |-> NoneStr, array_length |-> NoneStr, value |-> NoneStr,
     name |-> NoneName, scan |-> NoneStr, binary |-> NoPayload]

CvLine(acc, label, v) == [BlankLine EXCEPT !.toks = {acc}, !.name = label, !.value = v]

\* str.split(sep) on a one-character separator
RECURSIVE SplitFrom(_, _, _, _)
SplitFrom(s, sep, i, cur) ==
    IF i > Len(s) THEN <<cur>>
    ELSE IF s[i] = sep THEN <<cur>> \o SplitFrom(s, sep, i + 1, <<>>)
    ELSE SplitFrom(s, sep, i + 1, Append(cur, s[i]))

Split(s, sep) == SplitFrom(s, sep, 1, <<>>)
Last(q) == q[Len(q)]

\* mutant: MS4 reads the segment MS3 reads
UpdateParentSameSegment(r, filter_string) ==
    IF r.ms_level = NoneStr THEN [spec |-> r, exc |-> "TypeError"]
    ELSE IF ~IsIntStr(r.ms_level) THEN [spec |-> r, exc |-> "ValueError"]
    ELSE IF IntOfStr(r.ms_level) < 3 THEN [spec |-> r, exc |-> ""]
    ELSE IF filter_string = NoneStr THEN [spec |-> r, exc |-> "AttributeError"]
    ELSE LET parents == Split(filter_string, "@")
         IN  IF r.ms_level \in {<<"3">>, <<"4">>}
             THEN IF Len(parents) < 2 THEN [spec |-> r, exc |-> "IndexError"]
                  ELSE [spec |-> [r EXCEPT !.parent_mass = Last(Split(parents[2], " "))],
                        exc |-> ""]
             ELSE [spec |-> r, exc |-> ""]

\* MzmlParser.update_parent on the current record
UpdateParent(r, filter_string) ==
    IF r.ms_level = NoneStr THEN [spec |-> r, exc |-> "TypeError"]
    ELSE IF ~IsIntStr(r.ms_level) THEN [spec |-> r, exc |-> "ValueError"]
    ELSE IF IntOfStr(r.ms_level) < 3 THEN [spec |-> r, exc |-> ""]
    ELSE IF filter_string = NoneStr THEN [spec |-> r, exc |-> "AttributeError"]
    ELSE LET parents == Split(filter_string, "@")
         IN  IF r.ms_level = <<"3">>
             THEN IF Len(parents) < 2 THEN [spec |-> r, exc |-> "IndexError"]
                  ELSE [spec |-> [r EXCEPT !.parent_mass = Last(Split(parents[2], " "))],
                        exc |-> ""]
             ELSE IF r.ms_level = <<"4">>
             THEN IF Len(parents) < 3 THEN [spec |-> r, exc |-> "IndexError"]
                  ELSE [spec |-> [r EXCEPT !.parent_mass = Last(Split(parents[3], " "))],
                        exc |-> ""]
             ELSE [spec |-> r, exc |-> ""]

\* mutant: the converter multiplies
RetentionTimeTimes(value, rt_units) ==
    LET rt_converter == IF rt_units = "sec" THEN 60 ELSE 1
    IN  StrOfFloat(FloatOfStr(value) * rt_converter)

\* str(float(value) / rt_converter); the drawn values divide exactly
RetentionTime(value, rt_units) ==
    LET rt_converter == IF rt_units = "sec" THEN 60 ELSE 1
    IN  StrOfFloat(FloatOfStr(value) \div rt_converter)

\* mutant: a blob with no array type known is taken for intensities
BlobTargetGuess(bin_type) ==
    IF bin_type = 0 THEN "mz" ELSE "intensity"

\* the field a binary blob goes to under curr_spec_bin_type
BlobTarget(bin_type) ==
    IF bin_type = 0 THEN "mz"
    ELSE IF bin_type = 1 THEN "intensity"
    ELSE "raise"

\* mutant: the MS level is also recognised by its text label
ExtractInformationByLabel(r, bin_type, line, rt_units) ==
    LET same == [spec |-> r, bin |-> bin_type, exc |-> ""]
    IN  IF "MS:1000511" \in line.toks \/ line.name = "ms level"
        THEN [same EXCEPT !.spec.ms_level = line.value]
        ELSE IF "MS:1000796" \in line.toks
        THEN [same EXCEPT !.spec.scan = line.scan]
        ELSE IF "MS:1000016" \in line.toks
        THEN IF line.value = NoneStr THEN [same EXCEPT !.exc = "TypeError"]
             ELSE IF ~IsFloatStr(line.value) THEN [same EXCEPT !.exc = "ValueError"]
             ELSE [same EXCEPT !.spec.retention_time = RetentionTime(line.value, rt_units)]
        ELSE IF "MS:1000521" \in line.toks \/ "MS:1000523" \in line.toks
        THEN [same EXCEPT !.spec.d_type = line.name]
        ELSE IF "MS:1000574" \in line.toks
        THEN [same EXCEPT !.spec.compression = line.name]
        ELSE IF "MS:1000744" \in line.toks
        THEN [same EXCEPT !.spec.parent_mass = line.value]
        ELSE IF "<precursor spectrumRef" \in line.toks
        THEN [same EXCEPT !.spec.parent_scan = line.scan]
        ELSE IF "MS:1000512" \in line.toks
        THEN LET u == UpdateParent(r, line.value)
             IN  [spec |-> u.spec, bin |-> bin_type, exc |-> u.exc]
        ELSE IF "MS:1000514" \in line.toks
        THEN [same EXCEPT !.bin = 0]
        ELSE IF "MS:1000515" \in line.toks
        THEN [same EXCEPT !.bin = 1]
        ELSE IF "<binary>" \in line.toks
        THEN IF BlobTarget(bin_type) = "mz"
             THEN [same EXCEPT !.spec.mz = line.binary]
             ELSE IF BlobTarget(bin_type) = "intensity"
             THEN [same EXCEPT !.spec.intensity = line.binary]
             ELSE [same EXCEPT !.exc = "Exception"]
        ELSE same

\* MzmlParser.extract_information: the record, the array type and the
\* exception after the call
ExtractInformation(r, bin_type, line, rt_units) ==
    LET same == [spec |-> r, bin |-> bin_type, exc |-> ""]
    IN  IF "MS:1000511" \in line.toks
        THEN [same EXCEPT !.spec.ms_level = line.value]
        ELSE IF "MS:1000796" \in line.toks
        THEN [same EXCEPT !.spec.scan = line.scan]
        ELSE IF "MS:1000016" \in line.toks
        THEN IF line.value = NoneStr THEN [same EXCEPT !.exc = "TypeError"]
             ELSE IF ~IsFloatStr(line.value) THEN [same EXCEPT !.exc = "ValueError"]
             ELSE [same EXCEPT !.spec.retention_time = RetentionTime(line.value, rt_units)]
        ELSE IF "MS:1000521" \in line.toks \/ "MS:1000523" \in line.toks
        THEN [same EXCEPT !.spec.d_type = line.name]
        ELSE IF "MS:1000574" \in line.toks
        THEN [same EXCEPT !.spec.compression = line.name]
        ELSE IF "MS:1000744" \in line.toks
        THEN [same EXCEPT !.spec.parent_mass = line.value]
        ELSE IF "<precursor spectrumRef" \in line.toks
        THEN [same EXCEPT !.spec.parent_scan = line.scan]
        ELSE IF "MS:1000512" \in line.toks
        THEN LET u == UpdateParent(r, line.value)
             IN  [spec |-> u.spec, bin |-> bin_type, exc |-> u.exc]
        ELSE IF "MS:1000514" \in line.toks
        THEN [same EXCEPT !.bin = 0]
        ELSE IF "MS:1000515" \in line.toks
        THEN [same EXCEPT !.bin = 1]
        ELSE IF "<binary>" \in line.toks
        THEN IF BlobTarget(bin_type) = "mz"
             THEN [same EXCEPT !.spec.mz = line.binary]
             ELSE IF BlobTarget(bin_type) = "intensity"
             THEN [same EXCEPT !.spec.intensity = line.binary]
             ELSE [same EXCEPT !.exc = "Exception"]
        ELSE same

BANNED_PHRASES == {"<userParam"}
\* mutant: a banned phrase is banned only on a line that holds nothing else
banned_phrases_alone(line) == line.toks \in {{phrase} : phrase \in BANNED_PHRASES}

banned_phrases(line) == \E phrase \in BANNED_PHRASES : phrase \in line.toks

Reading == pc = "parsing" /\ nlines < MaxLines

\* mutant: a line without the index attribute opens a block too
StartSpectrumAnyLine(line) ==
    /\ Reading
    /\ ~in_spectrum
    /\ nlines' = nlines + 1
    /\ in_spectrum' = TRUE
    /\ spec' = [spec EXCEPT !.id = line.index, !.array_length = line.array_length]
    /\ block' = <<>>
    /\ UNCHANGED <<cfg, curr_spec_bin_type, spectra, pc, exc>>
    /\ UNCHANGED pipeVars
    /\ UNCHANGED chromVars

\* process_line, not in a spectrum: start_spectrum
StartSpectrum(line) ==
    /\ Reading
    /\ ~in_spectrum
    /\ nlines' = nlines + 1
    /\ IF line.index = NoneStr
       THEN UNCHANGED <<in_spectrum, spec>>
       ELSE /\ in_spectrum' = TRUE
            /\ spec' = [spec EXCEPT !.id = line.index,
                                    !.array_length = line.array_length]
    /\ block' = <<>>
    /\ UNCHANGED <<cfg, curr_spec_bin_type, spectra, pc, exc>>
    /\ UNCHANGED pipeVars
    /\ UNCHANGED chromVars

\* process_line, in a spectrum, the line holds the end tag
EndSpectrum(line) ==
    /\ Reading
    /\ in_spectrum
    /\ "</spectrum>" \in line.toks
    /\ nlines' = nlines + 1
    /\ spectra' = Append(spectra, spec)
    /\ in_spectrum' = FALSE
    /\ spec' = NewSpectrum(cfg.int_threshold, cfg.relative)
    /\ block' = <<>>
    /\ UNCHANGED <<cfg, curr_spec_bin_type, pc, exc>>
    /\ UNCHANGED pipeVars
    /\ UNCHANGED chromVars

\* process_line, in a spectrum, a banned phrase: the line is skipped
SkipBanned(line) ==
    /\ Reading
    /\ in_spectrum
    /\ "</spectrum>" \notin line.toks
    /\ banned_phrases(line)
    /\ nlines' = nlines + 1
    /\ UNCHANGED <<cfg, in_spectrum, spec, curr_spec_bin_type, spectra, block, pc, exc>>
    /\ UNCHANGED pipeVars
    /\ UNCHANGED chromVars

\* process_line, in a spectrum, any other line: extract_information; an
\* exception leaves parse_file
ExtractLine(line) ==
    /\ Reading
    /\ in_spectrum
    /\ "</spectrum>" \notin line.toks
    /\ ~banned_phrases(line)
    /\ nlines' = nlines + 1
    /\ block' = Append(block, line)
    /\ LET res == ExtractInformation(spec, curr_spec_bin_type, line, cfg.rt_units)
       IN  /\ spec' = res.spec
           /\ curr_spec_bin_type' = res.bin
           /\ exc' = res.exc
           /\ pc' = IF res.exc = "" THEN pc ELSE "failed"
    /\ UNCHANGED <<cfg, in_spectrum, spectra>>
    /\ UNCHANGED pipeVars
    /\ UNCHANGED chromVars

\* readlines() is exhausted: parse_file goes on to the buckets
EndOfInput ==
    /\ pc = "parsing"
    /\ pc' = "parsed"
    /\ ncalls' = [i \in 1..Len(spectra) |-> 0]
    /\ UNCHANGED <<cfg, in_spectrum, spec, curr_spec_bin_type, spectra, nlines,
                   block, input, ms_levels, ms, th, output, exc, written>>
    /\ UNCHANGED chromVars

-----------------------------------------------------------------------------
(* Input lines, drawn from a bounded set                                   *)

StartLine == [BlankLine EXCEPT !.index = <<"0">>, !.array_length = <<"1">>]
EndLine == [BlankLine EXCEPT !.toks = {"</spectrum>"}]
UserParamLine == [BlankLine EXCEPT !.toks = {"<userParam"}, !.value = <<"9">>]
ScanLine == [BlankLine EXCEPT !.toks = {"MS:1000796"}, !.scan = <<"7">>]
PrecursorRefLine == [BlankLine EXCEPT !.toks = {"<precursor spectrumRef"}, !.scan = <<"6">>]
BinaryLine == [BlankLine EXCEPT !.toks = {"<binary>"}, !.binary = Payload(<<11>>)]

\* "m 5.0@c 2.5@c": two fragmentation stages
FilterString == <<"m", " ", "5", ".", "0", "@", "c", " ", "2", ".", "5", "@", "c">>

MetaLines ==
    {CvLine("MS:1000511", "ms level", v) : v \in {<<"2">>, <<"3">>}}
      \cup {ScanLine, PrecursorRefLine,
            CvLine("MS:1000016", "scan start time", <<"2">>),
            CvLine("MS:1000523", "64-bit float", NoneStr),
            CvLine("MS:1000574", "zlib compression", NoneStr),
            CvLine("MS:1000744", "selected ion m/z", <<"7", ".", "5">>),
            CvLine("MS:1000512", "filter string", FilterString)}

Lines ==
    MetaLines
      \cup {BlankLine, StartLine, EndLine, UserParamLine, BinaryLine,
            CvLine("MS:1000514", "m/z array", NoneStr),
            CvLine("MS:1000515", "intensity array", NoneStr)}

ParserNext ==
    \/ \E line \in Lines : StartSpectrum(line)
    \/ \E line \in Lines : EndSpectrum(line)
    \/ \E line \in Lines : SkipBanned(line)
    \/ \E line \in Lines : ExtractLine(line)
    \/ EndOfInput

\* MzmlParser.__init__ with the constructor arguments c
ParserInitWith(c) ==
    /\ cfg = c
    /\ in_spectrum = FALSE
    /\ spec = NewSpectrum(cfg.int_threshold, cfg.relative)
    /\ curr_spec_bin_type = -1
    /\ spectra = <<>>
    /\ nlines = 0
    /\ block = <<>>
    /\ input = <<>>
    /\ ms_levels = NoOutput
    /\ ms = NoOutput
    /\ th = [L \in Levels |-> NewThread]
    /\ output = NoOutput
    /\ pc = "parsing"
    /\ exc = ""
    /\ written = FALSE
    /\ ncalls = <<>>
    /\ ChromIdle

ParserInit ==
    ParserInitWith([int_threshold |-> 20, relative |-> FALSE, rt_units |-> "min"])

\* parse_file from construction to its return, on a file of up to MaxLines lines
ParserSpec == ParserInit /\ [][(ParserNext \/ PipeNext) /\ UNCHANGED input]_vars

\* "m 5.0@c 2.5@c 1.5@c": three fragmentation stages; "m": none
FilterString3 == FilterString \o <<" ", "1", ".", "5", "@", "c">>
FilterString0 == <<"m">>

\* files of spectrum blocks that hold MS-level, precursor and filter-string lines
ParentLines ==
    {CvLine("MS:1000511", "ms level", v) : v \in {<<"1">>, <<"2">>, <<"3">>, <<"4">>}}
      \cup {CvLine("MS:1000512", "filter string", f) :
                f \in {FilterString, FilterString3, FilterString0}}
      \cup {StartLine, EndLine,
            CvLine("MS:1000744", "selected ion m/z", <<"7", ".", "5">>)}

ParentNext ==
    \/ \E line \in ParentLines : StartSpectrum(line)
    \/ \E line \in ParentLines : EndSpectrum(line)
    \/ \E line \in ParentLines : ExtractLine(line)

\* the read loop of parse_file on such files
ParentSpec == ParserInit /\ [][ParentNext /\ UNCHANGED input]_vars

\* values of the rt_units argument: the default None, the two values the
\* docstring of process_mzml_file names, and the word for seconds
RtUnits == {NoneName, "min", "sec", "second"}

\* files of spectrum blocks that hold scan-number and scan-start-time lines;
\* the times read are whole multiples of 60 units of the model, so that the
\* division is exact
RtLines ==
    {CvLine("MS:1000016", "scan start time", v) :
        v \in {<<"3">>, <<"9", "0">>, <<"1", "2", "0">>}}
      \cup {StartLine, EndLine, ScanLine}

RtNext ==
    \/ \E line \in RtLines : StartSpectrum(line)
    \/ \E line \in RtLines : EndSpectrum(line)
    \/ \E line \in RtLines : ExtractLine(line)

RtInit ==
    \E u \in RtUnits :
        ParserInitWith([int_threshold |-> 20, relative |-> FALSE, rt_units |-> u])

\* the read loop of parse_file under each value of rt_units
RtSpec == RtInit /\ [][RtNext /\ UNCHANGED input]_vars

\* a cvParam line that carries the text label of a term and not its accession
LabelLine(label, v) == [BlankLine EXCEPT !.name = label, !.value = v]

\* files whose metadata lines carry the accession code of a term, or only
\* its text label
ClassifierLines ==
    {StartLine, EndLine,
     CvLine("MS:1000511", "ms level", <<"2">>),
     CvLine("MS:1000016", "scan start time", <<"3">>),
     CvLine("MS:1000744", "selected ion m/z", <<"7", ".", "5">>),
     CvLine("MS:1000514", "m/z array", NoneStr),
     CvLine("MS:1000515", "intensity array", NoneStr),
     LabelLine("ms level", <<"3">>),
     LabelLine("scan start time", <<"9", "0">>),
     LabelLine("selected ion m/z", <<"8", ".", "5">>),
     LabelLine("m/z array", NoneStr),
     LabelLine("intensity array", NoneStr)}

ClassifierNext ==
    \/ \E line \in ClassifierLines : StartSpectrum(line)
    \/ \E line \in ClassifierLines : EndSpectrum(line)
    \/ \E line \in ClassifierLines : ExtractLine(line)

\* the read loop of parse_file on such files
ClassifierSpec == ParserInit /\ [][ClassifierNext /\ UNCHANGED input]_vars

StartLine1 == [BlankLine EXCEPT !.index = <<"1">>, !.array_length = <<"2">>]

\* a userParam line whose text also holds the accessions of the MS level
\* and of the m/z array
BannedCvLine ==
    [BlankLine EXCEPT !.toks = {"<userParam", "MS:1000511", "MS:1000514"},
                      !.value = <<"3">>]

\* files of spectrum blocks with lines that are skipped
MachineLines ==
    {BlankLine, StartLine, StartLine1, EndLine, UserParamLine, BannedCvLine,
     CvLine("MS:1000511", "ms level", <<"2">>),
     CvLine("MS:1000515", "intensity array", NoneStr),
     LabelLine("ms level", <<"3">>)}

\* the read loop takes the next line of the file
MachineNext ==
    \/ \E line \in MachineLines : StartSpectrum(line) /\ input' = Append(input, line)
    \/ \E line \in MachineLines : EndSpectrum(line) /\ input' = Append(input, line)
    \/ \E line \in MachineLines : SkipBanned(line) /\ input' = Append(input, line)
    \/ \E line \in MachineLines : ExtractLine(line) /\ input' = Append(input, line)
    \/ EndOfInput

\* the read loop of parse_file, the lines read being recorded
MachineSpec == ParserInit /\ [][MachineNext]_vars

\* the parser after a first block of the file, <spectrum index="0" ...>, an
\* array-type marker and </spectrum>, has been read: the record is in the
\* completed list and curr_spec_bin_type is what the marker set (process_line
\* assigns it nowhere); nlines counts the lines read after that block
AfterFirstBlock(bin_type) ==
    /\ cfg = [int_threshold |-> 20, relative |-> FALSE, rt_units |-> "min"]
    /\ in_spectrum = FALSE
    /\ spec = NewSpectrum(cfg.int_threshold, cfg.relative)
    /\ curr_spec_bin_type = bin_type
    /\ spectra = <<[NewSpectrum(cfg.int_threshold, cfg.relative) EXCEPT
                      !.id = <<"0">>, !.array_length = <<"1">>]>>
    /\ nlines = 0
    /\ block = <<>>
    /\ input = <<>>
    /\ ms_levels = NoOutput
    /\ ms = NoOutput
    /\ th = [L \in Levels |-> NewThread]
    /\ output = NoOutput
    /\ pc = "parsing"
    /\ exc = ""
    /\ written = FALSE
    /\ ncalls = <<>>
    /\ ChromIdle

LaterBlockInit == \E bin_type \in {0, 1} : AfterFirstBlock(bin_type)

\* the lines of the blocks that follow
LaterBlockLines ==
    {BlankLine, StartLine1, EndLine, BinaryLine,
     CvLine("MS:1000514", "m/z array", NoneStr),
     CvLine("MS:1000515", "intensity array", NoneStr)}

LaterBlockNext ==
    \/ \E line \in LaterBlockLines : StartSpectrum(line)
    \/ \E line \in LaterBlockLines : EndSpectrum(line)
    \/ \E line \in LaterBlockLines : ExtractLine(line)

\* the read loop of parse_file on the blocks after the first
LaterBlockSpec == LaterBlockInit /\ [][LaterBlockNext /\ UNCHANGED input]_vars

-----------------------------------------------------------------------------
(* Calls of generate_EIC, drawn from bounded sets                          *)

\* m/z and intensity arrays (intensities in half units) of MS1 spectra
\* around 200.0: peaks on the bounds of 10 ppm; a peak on the bound of 5 ppm
\* and one past 10 ppm; a peak far away; two peaks of one 4-decimal mass
EicPeaks ==
    {<<<<19999800, 20000200>>, <<42, 44>>>>,
     <<<<20000100, 20000210>>, <<42, 50>>>>,
     <<<<10000000>>, <<60>>>>,
     <<<<20000001, 20000002>>, <<42, 46>>>>}

EicRts == {1 * Scale, 3 * Scale}

\* the serialized dicts of such spectra, as parse_file returns them
EicSpectra(rel) ==
    {Process(Drawn(20, rel, 1, rt, "zlib compression", Len(p[1]), p[1], p[2])).rec.serialized :
        rt \in EicRts, p \in EicPeaks}

EicTolerances == {<<10, "ppm">>, <<5, "ppm">>, <<200, "u">>, <<100, "u">>, <<10, "Da">>}

EicCalls ==
    {[made |-> TRUE, ms_data |-> d, target_mass |-> 200 * Scale,
      error_tolerance |-> t[1], error_units |-> t[2], min_rt |-> lo, max_rt |-> hi] :
        d \in UNION {SeqsUpTo(EicSpectra(rel), MaxSpectra) : rel \in BOOLEAN},
        t \in EicTolerances,
        lo \in {0, 2 * Scale},
        hi \in {<<>>, <<0>>, <<2 * Scale>>}}

ChromNext ==
    \/ ~eic_call.made /\ \E c \in EicCalls : EicCall(c)
    \/ EicIterate
    \/ EicNext

\* one call of generate_EIC and up to MaxIterations for loops over its result
EicSpec == ParserInit /\ [][ChromNext]_vars

-----------------------------------------------------------------------------
(* Calls of generate_chromatogram, drawn from bounded sets                 *)

\* m/z arrays and intensity arrays: a tie of the maximum, the maximum last,
\* the maximum first, a single peak
BpcPeaks ==
    {<<<<20000200, 15000000>>, <<42, 42>>>>,
     <<<<19999800, 20000200>>, <<42, 44>>>>,
     <<<<10000000, 20000000>>, <<60, 42>>>>,
     <<<<10000000>>, <<60>>>>}

ChromatogramModes == {"absolute", "relative", "splash"}

\* the spectrum dicts that build_output puts into a level (those with a
\* non-empty mass_list), in absolute mode, in relative mode, and in absolute
\* mode after pySPLASH_all_spectra
LevelDicts(mode) ==
    LET done == {Process(Drawn(20, mode = "relative", 1, rt, "zlib compression",
                               Len(p[1]), p[1], p[2])) : rt \in EicRts, p \in BpcPeaks}
        kept == {q.rec.serialized : q \in {x \in done : x.exc = "" /\ x.rec.serialized.mass_list # <<>>}}
    IN  IF mode = "splash" THEN {WithSplash(d) : d \in kept} ELSE kept

\* leveled outputs: the four level keys, ms3 and ms4 empty
LeveledOutputs ==
    UNION {{<<l1, l2, <<>>, <<>>>> :
               l1 \in SeqsUpTo(LevelDicts(mode), MaxSpectra),
               l2 \in SeqsUpTo(LevelDicts(mode), 1)} : mode \in ChromatogramModes}

ChromatogramTypes == {"bpc", "tic", "TIC", "xyz"}

\* level 5 is a level whose key is absent from the data
ChromatogramLevels == {1, 2, 5}

ChromatogramNext ==
    ~chrom.made /\ \E d \in LeveledOutputs, t \in ChromatogramTypes, L \in ChromatogramLevels :
                       ChromCall(d, t, L)

\* one call of generate_chromatogram on a leveled output
ChromatogramSpec == ParserInit /\ [][ChromatogramNext]_vars


-----------------------------------------------------------------------------
(* Properties of the aggregator and of serialize                           *)

Processed(i) == ~IsEmptyDict(spectra[i].serialized)
Returned == pc = "done"
OutputBuilt == pc \in {"write", "done"}
InOutput(i) == \E L \in Levels : \E n \in DOMAIN output[L] : output[L][n] = i
RtOf(i) == spectra[i].serialized.retention_time

\* the threshold rule as the specification words it (intensities in half
\* units): MS1 keeps intensity > threshold, MS2..MS4 intensity > 5% of it
RuleKeeps(level, inten, thr) ==
    IF level = <<"1">> THEN inten > 2 * thr
    ELSE level \in {<<"2">>, <<"3">>, <<"4">>} /\ inten * 10 > thr

KeptIdx(i) ==
    SelectSeq([j \in 1..Len(spectra[i].intensity.vals) |-> j],
              LAMBDA j : RuleKeeps(spectra[i].ms_level, spectra[i].intensity.vals[j],
                                   spectra[i].intensity_threshold))

DecodeFailed ==
    \E L \in Levels : th[L].exc \in {"UnsupportedCompressionMethod", "struct.error"}

\* C1: if decoding a completed record fails (compression not zlib, or byte
\* length not matching array_length), parse_file does not return an output
\* and no output file is written.
C1_DecodeFailureAborts == DecodeFailed => (~Returned /\ ~written)

\* C2: for every MS level the keys of the leveled output are exactly
\* spectrum_1 .. spectrum_k with no gaps, k the number of spectra kept.
C2_KeysContiguous ==
    OutputBuilt =>
        \A L \in Levels : DOMAIN output[L] = 1..Cardinality(DOMAIN output[L])

\* C3: every spectrum of the leveled output has a non-empty mass_list, and a
\* record whose peaks are all at or below its threshold is under no level.
C3_OutputMassListsNonEmpty ==
    /\ \A L \in Levels : \A n \in DOMAIN output[L] :
          spectra[output[L][n]].serialized.mass_list # <<>>
    /\ \A i \in 1..Len(spectra) : KeptIdx(i) = <<>> => ~InOutput(i)

C3_Witness ==
    /\ Returned
    /\ \E L \in Levels :
          /\ DOMAIN output[L] # {}
          /\ \E p \in 1..Len(ms[L]) :
                /\ Processed(ms[L][p])
                /\ KeptIdx(ms[L][p]) = <<>>
                /\ ~InOutput(ms[L][p])

\* C4: within each level, spectrum_i comes before spectrum_j (i < j) only if
\* its retention time is numerically less than or equal.
C4_NumericRtOrder ==
    \A L \in Levels : \A m, n \in DOMAIN output[L] :
        m < n => FloatOfStr(RtOf(output[L][m])) <= FloatOfStr(RtOf(output[L][n]))

\* C5: mass_list of a serialized record of MS level 1..4 holds, in array
\* order, the (rounded) masses of exactly the pairs the threshold rule keeps:
\* intensity > threshold for MS1, intensity > 5% of threshold for MS2..MS4.
C5_ThresholdFilter ==
    \A i \in 1..Len(spectra) :
        Processed(i) =>
            spectra[i].serialized.mass_list =
                [q \in 1..Len(KeptIdx(i)) |->
                    10 * Round4(spectra[i].mz.vals[KeptIdx(i)[q]])]

\* a peak exactly at the bound (left out) and one unit above it (kept),
\* at MS1 and above MS1
C5_Witness ==
    \E i \in 1..Len(spectra) :
        /\ Processed(i)
        /\ spectra[i].intensity_threshold = 20
        /\ \/ spectra[i].ms_level = <<"1">> /\ spectra[i].intensity.vals = <<40, 42>>
           \/ spectra[i].ms_level = <<"3">> /\ spectra[i].intensity.vals = <<2, 4>>
        /\ Len(spectra[i].serialized.mass_list) = 1

\* C8: in every serialized output the length of mass_list equals the number
\* of mass keys of the mapping.
C8_MassListMatchesKeys ==
    \A i \in 1..Len(spectra) :
        Processed(i) =>
            Len(spectra[i].serialized.mass_list) = Len(spectra[i].serialized.ions)

\* C9: each mass m of mass_list of an output spectrum has an entry under the
\* key f"{m:.4f}".
C9_MassListLookup ==
    \A L \in Levels : \A n \in DOMAIN output[L] :
        LET d == spectra[output[L][n]].serialized
        IN  \A q \in 1..Len(d.mass_list) :
                DictHas(d.ions, StrKey(Fmt4(d.mass_list[q])))

\* C10: over a whole run each record is decoded at most once, and the pass
\* of build_output leaves every record (serialized output and payload
\* fields) as bulk_process left it.
C10_DecodedOnce ==
    /\ [](\A i \in 1..Len(spectra) : ncalls[i] <= 1)
    /\ [][pc = "build" => spectra' = spectra]_vars

C10_Witness ==
    /\ Returned
    /\ \E i \in 1..Len(spectra) : InOutput(i) /\ ncalls[i] = 1
    /\ \E i \in 1..Len(spectra) :
          Processed(i) /\ ~InOutput(i) /\ ncalls[i] = 1

-----------------------------------------------------------------------------
(* Properties of the parser                                                *)

\* a binary blob line: the line extract_information takes for a blob
IsBlobLine(line) ==
    /\ "<binary>" \in line.toks
    /\ line.toks \cap {"MS:1000511", "MS:1000796", "MS:1000016", "MS:1000521",
                       "MS:1000523", "MS:1000574", "MS:1000744",
                       "<precursor spectrumRef", "MS:1000512", "MS:1000514",
                       "MS:1000515"} = {}

\* C6: a binary blob line processed inside a spectrum while no array type
\* has been established raises a fatal error, and the blob is assigned to
\* neither the m/z nor the intensity field.
C6_BlobWithoutTypeIsFatal ==
    [][(/\ pc = "parsing" /\ in_spectrum /\ curr_spec_bin_type = -1
        /\ Len(block') = Len(block) + 1
        /\ IsBlobLine(Last(block')))
       => (/\ pc' = "failed" /\ exc' = "Exception"
           /\ spec'.mz = spec.mz /\ spec'.intensity = spec.intensity
           /\ spectra' = spectra)]_vars

C6_Witness ==
    /\ pc = "failed"
    /\ exc = "Exception"
    /\ block # <<>>
    /\ IsBlobLine(Last(block))
    /\ curr_spec_bin_type = -1
    /\ spec.mz = Payload(<<>>)
    /\ spec.intensity = Payload(<<>>)

RECURSIVE RunBlock(_, _, _)
RunBlock(st, q, rt_units) ==
    IF q = <<>> \/ st.exc # "" THEN st
    ELSE RunBlock(ExtractInformation(st.spec, st.bin, Head(q), rt_units), Tail(q), rt_units)

Reorderings(q) ==
    {[i \in 1..Len(q) |-> q[f[i]]] :
        f \in {g \in [1..Len(q) -> 1..Len(q)] : \A i, j \in 1..Len(q) : g[i] = g[j] => i = j}}

\* the open block holds recognised metadata lines only, each field once
MetadataBlock ==
    /\ in_spectrum
    /\ block # <<>>
    /\ \A i \in 1..Len(block) : block[i] \in MetaLines
    /\ \A i, j \in 1..Len(block) : block[i].toks = block[j].toks => i = j

\* the record as start_spectrum left it when the open block began
BlockStart ==
    [spec |-> [NewSpectrum(cfg.int_threshold, cfg.relative) EXCEPT
                  !.id = spec.id, !.array_length = spec.array_length],
     bin |-> curr_spec_bin_type, exc |-> ""]

\* C7: the metadata lines of a block may come in any order: the block is
\* processed without error, and every permutation of its lines leaves the
\* same record.
C7_OrderIndependent ==
    MetadataBlock =>
        /\ exc = ""
        /\ \A q \in Reorderings(block) :
              LET res == RunBlock(BlockStart, q, cfg.rt_units)
              IN  res.exc = "" /\ res.spec = spec

-----------------------------------------------------------------------------
(* Parent-mass derivation                                                  *)

\* the line extract_information takes for a suggested-precursor filter string
IsFilterLine(line) ==
    /\ "MS:1000512" \in line.toks
    /\ line.toks \cap {"MS:1000511", "MS:1000796", "MS:1000016", "MS:1000521",
                       "MS:1000523", "MS:1000574", "MS:1000744",
                       "<precursor spectrumRef"} = {}

\* position of the k-th '@' of s (0: there is none)
AtPos(s, k) ==
    LET ats == {i \in 1..Len(s) : s[i] = "@"}
    IN  IF Cardinality(ats) < k THEN 0
        ELSE CHOOSE i \in ats : Cardinality({j \in ats : j <= i}) = k

\* the segment that follows the k-th '@', up to the next '@' or the end
SegmentAfter(s, k) ==
    SubSeq(s, AtPos(s, k) + 1,
           IF AtPos(s, k + 1) = 0 THEN Len(s) ELSE AtPos(s, k + 1) - 1)

\* the last space-delimited token of a segment
LastToken(seg) ==
    LET sp == {i \in 1..Len(seg) : seg[i] = " "}
        from == IF sp = {} THEN 1 ELSE 1 + CHOOSE i \in sp : \A j \in sp : j <= i
    IN  SubSeq(seg, from, Len(seg))

\* C11: a filter-string line leaves the parent mass of a record of MS level
\* below 3 unchanged; at MS level 3 the parent mass becomes the last
\* space-delimited token of the segment after the first '@', at MS level 4
\* that of the segment after the second '@'.
C11_ParentMassDerivation ==
    [][(/\ pc = "parsing" /\ in_spectrum
        /\ Len(block') = Len(block) + 1
        /\ IsFilterLine(Last(block')))
       => LET fs == Last(block').value
          IN  /\ spec.ms_level \in {<<"1">>, <<"2">>}
                    => spec' = spec /\ exc' = ""
              /\ (spec.ms_level = <<"3">> /\ AtPos(fs, 1) # 0)
                    => /\ spec'.parent_mass = LastToken(SegmentAfter(fs, 1))
                       /\ exc' = ""
              /\ (spec.ms_level = <<"4">> /\ AtPos(fs, 2) # 0)
                    => /\ spec'.parent_mass = LastToken(SegmentAfter(fs, 2))
                       /\ exc' = ""]_vars

\* an MS4 record whose stated precursor m/z a three-stage filter string replaced
C11_Witness ==
    /\ in_spectrum
    /\ Len(block) = 3
    /\ block[2].value = <<"7", ".", "5">>
    /\ IsFilterLine(block[3])
    /\ block[3].value = FilterString3
    /\ spec.ms_level = <<"4">>
    /\ spec.parent_mass = <<"1", ".", "5">>
    /\ exc = ""

-----------------------------------------------------------------------------
(* Retention-time units                                                    *)

IsRtLine(line) ==
    /\ "MS:1000016" \in line.toks
    /\ line.toks \cap {"MS:1000511", "MS:1000796"} = {}

\* a step of the parser that read a scan-start-time line
ReadsRtLine ==
    /\ pc = "parsing" /\ in_spectrum
    /\ Len(block') = Len(block) + 1
    /\ IsRtLine(Last(block'))

\* C12 as amended: with rt_units = 'sec' the retention time stored is the
\* value read divided by 60; with every other value of rt_units (the default
\* None, 'min', and also 'second') it is the value read, unchanged.
C12_SecDividesBy60 ==
    [][ReadsRtLine =>
          /\ exc' = ""
          /\ IsFloatStr(spec'.retention_time)
          /\ IF cfg.rt_units = "sec"
             THEN 60 * FloatOfStr(spec'.retention_time) = FloatOfStr(Last(block').value)
             ELSE FloatOfStr(spec'.retention_time) = FloatOfStr(Last(block').value)]_vars

\* seconds configured under the name 'sec': 90 is stored as 1.5
C12_Witness ==
    /\ cfg.rt_units = "sec"
    /\ in_spectrum
    /\ block # <<>>
    /\ IsRtLine(Last(block))
    /\ Last(block).value = <<"9", "0">>
    /\ spec.retention_time = <<"1", ".", "5">>

\* C12 as stated: with the units configured as seconds, under the name
\* 'second' of the configuration surface as under 'sec', the retention time
\* stored is the value read divided by 60; with the default it is the value
\* read.
C12_SecondDividesBy60 ==
    [][ReadsRtLine =>
          /\ exc' = ""
          /\ IsFloatStr(spec'.retention_time)
          /\ cfg.rt_units \in {"sec", "second"}
                => 60 * FloatOfStr(spec'.retention_time) = FloatOfStr(Last(block').value)
          /\ cfg.rt_units \in {NoneName, "min"}
                => FloatOfStr(spec'.retention_time) = FloatOfStr(Last(block').value)]_vars

-----------------------------------------------------------------------------
(* Relative-intensity mode                                                 *)

\* the dict serialize hands to convert_to_relative for record i
AbsoluteDict(i) == Serialize([spectra[i] EXCEPT !.relative = FALSE]).out

\* 100.0 in the units of a relative intensity
Hundred == 100 * Pow10(Decimals)

-----------------------------------------------------------------------------
(* Worker threads and phases of parse_file                                 *)

InBucket(i, L) == \E p \in 1..Len(ms_levels[L]) : ms_levels[L][p] = i

\* the thread of level L takes a step of its loop
ThreadSteps(L) == th[L].st = "run" /\ th'[L] # th[L]

\* C14: the buckets share no record, and a step of the worker of level L
\* writes no result list but that of level L and touches no record but one
\* of its own bucket, a record of level L.
C14_WorkersOwnBuckets ==
    /\ [](\A i \in 1..Len(spectra) : \A K, L \in Levels :
              (InBucket(i, K) /\ InBucket(i, L)) => K = L)
    /\ [][\A L \in Levels :
            ThreadSteps(L) =>
               /\ \A K \in Levels \ {L} : ms'[K] = ms[K] /\ th'[K] = th[K]
               /\ \A i \in 1..Len(spectra) :
                     (spectra'[i] # spectra[i] \/ ncalls'[i] # ncalls[i]) =>
                        /\ InBucket(i, L)
                        /\ spectra[i].ms_level = StrOfNat(L)
                        /\ ncalls[i] = 0]_vars

\* two workers have each appended a record while both are still to be joined
C14_Witness ==
    /\ pc = "join"
    /\ th[1].pos = 2 /\ th[2].pos = 2
    /\ Len(ms[1]) = 1 /\ Len(ms[2]) = 1
    /\ ms[1] # ms[2]

Started(L) == th[L].st # "new"
Terminated(L) == th[L].st = "dead" \/ (th[L].st = "run" /\ th[L].pos > Len(ms_levels[L]))

\* C15: no worker thread is started while the parser still reads lines, no
\* line is processed once a worker is started, and sorting and build_output
\* run only when every worker thread has terminated, after which no worker
\* takes a step.
C15_PhasesOrdered ==
    /\ []((\E L \in Levels : Started(L)) => pc \notin {"parsing", "parsed"})
    /\ [][(\E L \in Levels : th'[L].st # "new") =>
              /\ nlines' = nlines
              /\ Len(spectra') = Len(spectra)
              /\ spec' = spec /\ in_spectrum' = in_spectrum]_vars
    /\ [](pc \in {"build", "write", "done"} => \A L \in Levels : Terminated(L))
    /\ [][(pc = "join" /\ \E L \in Levels : ~Terminated(L))
              => (ms' = ms \/ \E L \in Levels : ThreadSteps(L)) /\ output' = output]_vars
    /\ [][(pc \in {"build", "write", "done"}) => (th' = th)]_vars

\* a file of one MS2 block was read to its end, its worker has terminated
\* (by an exception) and the aggregation is about to begin
C15_Witness ==
    /\ pc = "build"
    /\ nlines >= 3
    /\ Len(spectra) = 1
    /\ Len(ms_levels[2]) = 1
    /\ ncalls = <<1>>
    /\ \A L \in Levels : Terminated(L)

-----------------------------------------------------------------------------
(* Properties of generate_EIC                                              *)

\* the caller's first (second) for loop over the generator has ended
FirstPassOver == eic_got.iter >= 1 /\ ~(eic_got.iter = 1 /\ eic_got.open)
SecondPassOver == eic_got.iter >= 2 /\ ~(eic_got.iter = 2 /\ eic_got.open)

ValidUnits == eic_call.error_units \in {"ppm", "u"}

\* the tolerance in mass units, as the specification words it
AbsoluteTolerance ==
    IF eic_call.error_units = "ppm"
    THEN (eic_call.target_mass * eic_call.error_tolerance) \div Million
    ELSE eic_call.error_tolerance

\* the retention time of spectrum d lies within the bounds of the call
InRtBounds(d) ==
    /\ FloatOfStr(d.retention_time) >= eic_call.min_rt
    /\ eic_call.max_rt # <<>> => FloatOfStr(d.retention_time) <= eic_call.max_rt[1]

\* the places of mass_list whose mass lies in the closed interval
Matched(d) ==
    {q \in 1..Len(d.mass_list) :
        /\ d.mass_list[q] >= eic_call.target_mass - AbsoluteTolerance
        /\ d.mass_list[q] <= eic_call.target_mass + AbsoluteTolerance}

\* the intensity the dict holds for mass m
IntensityOf(d, m) ==
    d.ions[CHOOSE j \in 1..Len(d.ions) : KeyFloat(d.ions[j].k) = m].v

RECURSIVE SumOver(_, _)
SumOver(d, places) ==
    IF places = {} THEN 0
    ELSE LET q == CHOOSE x \in places : TRUE
         IN  IntensityOf(d, d.mass_list[q]) + SumOver(d, places \ {q})

\* the points the specification asks for, in the order of the input spectra
ExpectedPoints ==
    LET kept == SelectSeq(eic_call.ms_data,
                          LAMBDA d : InRtBounds(d) /\ Matched(d) # {})
    IN  [k \in 1..Len(kept) |->
            <<FloatOfStr(kept[k].retention_time), SumOver(kept[k], Matched(kept[k]))>>]

\* C16: with a max_rt given, the pass over the chromatogram ends without an
\* error and its points are exactly those of the spectra with
\* min_rt <= retention_time <= max_rt that have a matching mass.
C16_RtBounds ==
    (FirstPassOver /\ ValidUnits /\ eic_call.max_rt # <<>>) =>
        /\ eic_got.excs[1] = ""
        /\ eic_got.seqs[1] = ExpectedPoints

\* C17: a point is emitted for exactly the spectra with a mass of mass_list
\* in [target_mass - tol, target_mass + tol], it is (retention_time, sum of
\* the intensities of the matched masses), and the points come in the order
\* of the input spectra.
C17_Matching ==
    (FirstPassOver /\ ValidUnits /\ eic_call.max_rt = <<>>) =>
        /\ eic_got.excs[1] = ""
        /\ eic_got.seqs[1] = ExpectedPoints

\* the call with the tolerance of a ppm call given in mass units
AsAbsoluteCall(c) ==
    [c EXCEPT !.error_units = "u",
              !.error_tolerance = (c.target_mass * c.error_tolerance) \div Million]

\* C18: a call with error_tolerance e in "ppm" yields the same sequence of
\* points (and ends the same way) as the call with error_tolerance
\* target_mass / 1e6 * e in "u" on the same ms_data and target_mass; the
\* pass the caller made over the ppm call is that sequence.
C18_UnitEquivalence ==
    (eic_call.made /\ eic_call.error_units = "ppm") =>
        LET ppm == Drain([NoGen EXCEPT !.st = "created"], eic_call, <<>>)
            abs == Drain([NoGen EXCEPT !.st = "created"], AsAbsoluteCall(eic_call), <<>>)
        IN  /\ ppm = abs
            /\ FirstPassOver => (eic_got.seqs[1] = abs.points /\ eic_got.excs[1] = abs.exc)

\* a 10 ppm call at 200.0 whose pass emitted a point for a spectrum with
\* peaks at 199.998 and 200.002, the bounds of 0.002 u
C18_Witness ==
    /\ FirstPassOver
    /\ eic_call.error_units = "ppm"
    /\ eic_call.error_tolerance = 10
    /\ eic_got.excs[1] = ""
    /\ Len(eic_got.seqs[1]) = 2
    /\ \E k \in 1..Len(eic_call.ms_data) :
          eic_call.ms_data[k].mass_list = <<19999800, 20000200>>
    /\ \E k \in 1..Len(eic_call.ms_data) :
          eic_call.ms_data[k].mass_list = <<20000100, 20000210>>

\* C19 as amended: the value returned by generate_EIC is lazy (nothing of
\* the body has run before the first item is asked for), finite and
\* single-pass: a second iteration after it was consumed yields no point.
C19_SinglePass ==
    /\ (eic_call.made /\ eic_got.iter = 0) => (eic_gen.st = "created" /\ eic_gen.exc = "")
    /\ SecondPassOver => (eic_got.seqs[2] = <<>> /\ eic_got.excs[2] = "")

\* a first pass that yielded points, and a second pass over
C19_Witness ==
    /\ SecondPassOver
    /\ eic_got.excs = <<"", "">>
    /\ eic_got.seqs[1] # <<>>

\* C19 as stated: a second iteration after the sequence was fully consumed
\* yields the same sequence of points again.
C19_Restartable == SecondPassOver => eic_got.seqs[2] = eic_got.seqs[1]

\* C20: a call with error units other than "ppm" and "u" fails at the call
\* itself with the configuration error, before any point is produced.
C20_UnitsErrorAtCall ==
    (eic_call.made /\ ~ValidUnits) =>
        /\ eic_gen.st = "finished"
        /\ eic_gen.exc = "Exception"
        /\ eic_got.iter = 0

-----------------------------------------------------------------------------
(* Properties of generate_chromatogram                                     *)

ChromLevelPresent == chrom.ms_level \in DOMAIN chrom.ms_data

ChromLevelData == IF ChromLevelPresent THEN chrom.ms_data[chrom.ms_level] ELSE <<>>

\* the position of the peak with the largest intensity, the last in key
\* order among equals
LastMax(ions) ==
    CHOOSE i \in 1..Len(ions) :
        /\ \A j \in 1..Len(ions) : ions[j].v <= ions[i].v
        /\ \A j \in (i + 1)..Len(ions) : ions[j].v < ions[i].v

BasePeak(d) ==
    <<FloatOfStr(d.retention_time), KeyFloat(d.ions[LastMax(d.ions)].k),
      d.ions[LastMax(d.ions)].v>>

TotalIon(d) == <<FloatOfStr(d.retention_time), SumValues(d.ions)>>

\* C21: a chromatogram type other than tic and bpc raises the configuration
\* error, whatever the data and the level, an absent level included
C21_UnknownTypeRaises ==
    (chrom.made /\ Lower(chrom.chromatogram) \notin {"bpc", "tic"})
        => chrom.exc = "Exception"

\* C22: bpc returns, for each spectrum of the level in the level's order,
\* (retention_time, mass, intensity) of the peak of maximum intensity, the
\* last in key order among equal maxima; the empty list for an absent level
C22_BasePeakChromatogram ==
    (chrom.made /\ Lower(chrom.chromatogram) = "bpc")
        => /\ chrom.exc = ""
           /\ chrom.ret = [k \in 1..Len(ChromLevelData) |-> BasePeak(ChromLevelData[k])]

\* C23: tic returns, for each spectrum of the level in the level's order,
\* (retention_time, total), the total being the sum of the intensities under
\* the mass keys and of nothing else
C23_TotalIonChromatogram ==
    (chrom.made /\ Lower(chrom.chromatogram) = "tic")
        => /\ chrom.exc = ""
           /\ chrom.ret = [k \in 1..Len(ChromLevelData) |-> TotalIon(ChromLevelData[k])]

\* C29: on every leveled output, absolute, relative (with base_peak) or
\* hashed (with splash), a bpc or tic call completes without error
C29_AcceptsEveryLeveledOutput ==
    (chrom.made /\ Lower(chrom.chromatogram) \in {"bpc", "tic"}) => chrom.exc = ""

-----------------------------------------------------------------------------
(* Recognition of metadata lines                                           *)

\* a step of the parser that handed a line to extract_information
ExtractsLine ==
    /\ pc = "parsing" /\ in_spectrum
    /\ Len(block') = Len(block) + 1

\* the field or array type that a term, named by code or by label, stands for
SetsTerm(term, line) ==
    CASE term = "ms level" -> spec'.ms_level = line.value
      [] term = "scan start time" ->
            spec'.retention_time = RetentionTime(line.value, cfg.rt_units)
      [] term = "selected ion m/z" -> spec'.parent_mass = line.value
      [] term = "m/z array" -> curr_spec_bin_type' = 0
      [] term = "intensity array" -> curr_spec_bin_type' = 1

TermLabels ==
    {"ms level", "scan start time", "selected ion m/z", "m/z array", "intensity array"}

TermCodes ==
    {"MS:1000511", "MS:1000016", "MS:1000744", "MS:1000514", "MS:1000515"}

HasCode(line) == line.toks \cap TermCodes # {}

-----------------------------------------------------------------------------
(* The state machine of the read loop                                      *)

\* the spectrum blocks closed in a sequence of lines: a line with the index
\* attribute read outside a block opens one, the first later line with the
\* end marker closes it
RECURSIVE ClosedBlocks(_, _, _)
ClosedBlocks(lines, open, closed) ==
    IF lines = <<>> THEN closed
    ELSE IF open = <<>>
    THEN ClosedBlocks(Tail(lines),
                      IF Head(lines).index # NoneStr THEN <<Head(lines)>> ELSE <<>>,
                      closed)
    ELSE IF "</spectrum>" \in Head(lines).toks
    THEN ClosedBlocks(Tail(lines), <<>>, closed \o open)
    ELSE ClosedBlocks(Tail(lines), open, closed)

\* a step of the read loop that took a line
ReadsLine == Len(input') = Len(input) + 1

\* C25: the completed list holds one record per block closed so far, in the
\* order of the file (an open block contributes none, at the end of the
\* input too); outside a block a line without the index attribute changes
\* nothing; inside a block a line with the index attribute opens no record.
C25_StateMachine ==
    /\ [](LET closed == ClosedBlocks(input, <<>>, <<>>)
          IN  /\ Len(spectra) = Len(closed)
              /\ \A i \in 1..Len(closed) :
                    /\ spectra[i].id = closed[i].index
                    /\ spectra[i].array_length = closed[i].array_length)
    /\ [][(ReadsLine /\ ~in_spectrum /\ Last(input').index = NoneStr)
            => (in_spectrum' = in_spectrum /\ spec' = spec /\ spectra' = spectra)]_vars
    /\ [][(ReadsLine /\ in_spectrum /\ Last(input').index # NoneStr
              /\ "</spectrum>" \notin Last(input').toks)
            => (in_spectrum' /\ spec'.id = spec.id /\ spectra' = spectra)]_vars
    /\ [][(pc = "parsing" /\ pc' = "parsed") => spectra' = spectra]_vars

\* block 0 was opened, a second start line was read inside it, it was
\* closed, block 1 was opened and is open at the end of the input
C25_Witness ==
    /\ pc = "parsed"
    /\ input = <<StartLine, StartLine1, EndLine, StartLine1>>
    /\ Len(spectra) = 1
    /\ spectra[1].id = <<"0">>
    /\ in_spectrum

\* a line that extract_information recognises
Recognised(line) ==
    line.toks \cap {"MS:1000511", "MS:1000796", "MS:1000016", "MS:1000521",
                    "MS:1000523", "MS:1000574", "MS:1000744",
                    "<precursor spectrumRef", "MS:1000512", "MS:1000514",
                    "MS:1000515", "<binary>"} # {}

\* C27: inside a block, a line without the end marker that holds
\* '<userParam' (whatever else it holds) or that holds no recognised marker
\* leaves the current record, the array type, the state and the completed
\* list as they were.
C27_SkippedLinesNoEffect ==
    [][(/\ ReadsLine /\ in_spectrum
        /\ "</spectrum>" \notin Last(input').toks
        /\ ("<userParam" \in Last(input').toks \/ ~Recognised(Last(input'))))
       => (/\ spec' = spec
           /\ curr_spec_bin_type' = curr_spec_bin_type
           /\ in_spectrum' = in_spectrum
           /\ spectra' = spectra
           /\ pc' = pc /\ exc' = exc)]_vars

\* the intensity marker and the MS level 2 were read; the userParam line
\* that also holds MS:1000511 and MS:1000514 changed neither
C27_Witness ==
    /\ in_spectrum
    /\ input = <<StartLine, CvLine("MS:1000515", "intensity array", NoneStr),
                 CvLine("MS:1000511", "ms level", <<"2">>), BannedCvLine>>
    /\ spec.ms_level = <<"2">>
    /\ curr_spec_bin_type = 1

-----------------------------------------------------------------------------
(* The array type and the blocks                                           *)

IsMarkerLine(line) == line.toks \cap {"MS:1000514", "MS:1000515"} # {}

\* no line of the open block read so far is an array-type marker
NoMarkerInBlock == \A i \in 1..Len(block) : ~IsMarkerLine(block[i])

\* C26: in any block, the first or a later one, a binary blob line with no
\* array-type marker line before it in the same block raises the fatal
\* error, and the blob is stored in neither payload field.
C26_ArrayTypePerBlock ==
    [][(/\ pc = "parsing" /\ in_spectrum
        /\ Len(block') = Len(block) + 1
        /\ IsBlobLine(Last(block'))
        /\ NoMarkerInBlock)
       => (/\ pc' = "failed" /\ exc' = "Exception"
           /\ spec'.mz = spec.mz /\ spec'.intensity = spec.intensity)]_vars

-----------------------------------------------------------------------------
(* No spectrum with peaks is lost                                          *)

\* zlib compression declared and both arrays of the declared length
Decodable(i) ==
    /\ spectra[i].compression = "zlib compression"
    /\ IsIntStr(spectra[i].array_length)
    /\ Len(spectra[i].mz.vals) = IntOfStr(spectra[i].array_length)
    /\ Len(spectra[i].intensity.vals) = IntOfStr(spectra[i].array_length)

\* parse_file has returned or has raised
ParseFileOver == pc \in {"done", "failed"}

\* the places of the leveled output that hold record i
PlacesOf(i) == {<<L, n>> \in Levels \X (1..Len(spectra)) :
                   n \in DOMAIN output[L] /\ output[L][n] = i}

\* C28: when every completed record is decodable, parse_file returns an
\* output with the four level keys in which every record of MS level 1..4
\* with a peak above its threshold is found exactly once, under its own
\* level, in absolute and in relative mode, whatever other records hold.
C28_NoSpectrumLost ==
    (ParseFileOver /\ \A i \in 1..Len(spectra) : Decodable(i))
        => /\ Returned
           /\ DOMAIN output = Levels
           /\ \A i \in 1..Len(spectra) :
                 KeptIdx(i) # <<>>
                    => /\ Cardinality(PlacesOf(i)) = 1
                       /\ \A pl \in PlacesOf(i) : StrOfNat(pl[1]) = spectra[i].ms_level

====
